---- MODULE Spec2Model ----
(***************************************************************************)
(* Model of the highlight generator of app.py: the /process handler, the   *)
(* interval sampler (get_random_non_overlapping_clip), the plan walk       *)
(* (process_scene_holders) and the timeline assembly                       *)
(* (generate_scenes_highlight).                                            *)
(*                                                                         *)
(* Every time of the code is a Python float, and the model computes with   *)
(* floats: a finite float is held exactly, and +, - and * round to 53      *)
(* significant bits, ties to even, as binary64 does. The inputs are the    *)
(* floats nearest to k / TicksPerSecond (0.1, 0.2, ... for ten ticks to    *)
(* the second), random.random() returns j / 2^RandomBits for a j up to     *)
(* MaxRandom, and a final length is a finite float, inf, -inf or nan.      *)
(* The list of looped copies holds MaxCopies entries before memory runs    *)
(* out. WalkSpec draws the requests and plans that exercise the sampler    *)
(* and the walk, AssemblySpec those that exercise looping and truncation.  *)
(***************************************************************************)
EXTENDS Integers, Sequences, FiniteSets

(* ---------------- bounds of the model ---------------- *)
MaxVideoDuration == 4
MaxClipDuration == 2
MaxPlanLen == 3
MaxTarget == 8
TicksPerSecond == 10
RandomBits == 1
MaxRandom == 1
MaxCopies == 12

(* ---------------- program constants ---------------- *)
MinGap == 1
MaxAttempts == 100
MantissaBits == 53

VARIABLES
    request,            \* the POST being served: file part, final_length field, length of the upload
    pc,                 \* position of the request in process / generate_scenes_highlight
    video_duration,     \* video.duration
    video_open,         \* the VideoFileClip handle is open
    scene_holders,      \* the plan walked by process_scene_holders
    desired_final_length,
    gi, di,             \* indices of the two for loops of process_scene_holders
    max_start_time,     \* local of the sampler call in progress
    attempts,           \* draws rejected so far by the sampler call in progress, 0 outside a call
    used_intervals,     \* list of (start, end + min_gap)
    selected_clips,     \* list of subclips, each the (t_start, t_end) passed to video.subclip
    outcomes,           \* trace of the inner loop: one record per duration attempted
    highlight_len,      \* highlight_len (L)
    loops,              \* len(loops)
    total,              \* total of the while loop
    clip_duration,      \* highlight_clip.duration
    has_audio,          \* highlight_clip carries an audio track
    output_written,     \* write_videofile has produced output_filename
    error               \* message of the exception that ended the request, or "none"

vars == <<request, pc, video_duration, video_open, scene_holders, desired_final_length,
          gi, di, max_start_time, attempts, used_intervals, selected_clips,
          outcomes, highlight_len, loops, total, clip_duration, has_audio,
          output_written, error>>

(* ---------------- exact numbers ---------------- *)
\* A number is an integer count n of units of 2^-FracBits, written in three
\* limbs <<hi, mid, lo>> with n = hi * LimbBase^2 + mid * LimbBase + lo and
\* 0 <= mid, lo < LimbBase; hi carries the sign. A float of magnitude 1/16 or
\* more is a multiple of 2^-(MantissaBits + 3), and a product by random() needs
\* RandomBits more.
LimbBits == 24
LimbBase == 2 ^ LimbBits
FracBits == MantissaBits + 3 + RandomBits

Norm(hi, mid, lo) ==
    LET m == mid + (lo \div LimbBase)
    IN  <<hi + (m \div LimbBase), m % LimbBase, lo % LimbBase>>

Zero == <<0, 0, 0>>

\* the integer n
Whole(n) == Norm(n * 2 ^ (FracBits - 2 * LimbBits), 0, 0)

Plus(x, y) == Norm(x[1] + y[1], x[2] + y[2], x[3] + y[3])
Negate(x) == Norm(-x[1], -x[2], -x[3])
Minus(x, y) == Plus(x, Negate(y))
Times(x, k) == Norm(k * x[1], k * x[2], k * x[3])

\* x < y and x <= y
Lt(x, y) ==
    \/ x[1] < y[1]
    \/ x[1] = y[1] /\ x[2] < y[2]
    \/ x[1] = y[1] /\ x[2] = y[2] /\ x[3] < y[3]
Le(x, y) == ~Lt(y, x)

Magnitude(x) == IF x[1] < 0 THEN Negate(x) ELSE x

\* the number of bits of a natural number below 2^30 (halving, tabulated
\* for one half limb), and of a number x >= 0
RECURSIVE Halvings(_)
Halvings(n) == IF n = 0 THEN 0 ELSE 1 + Halvings(n \div 2)
HalfLimb == 2 ^ (LimbBits \div 2)
BitsOfHalfLimb == [n \in 0..(HalfLimb - 1) |-> Halvings(n)]
Bits(n) ==
    IF n < HalfLimb THEN BitsOfHalfLimb[n]
    ELSE IF n < LimbBase THEN LimbBits \div 2 + BitsOfHalfLimb[n \div HalfLimb]
    ELSE LimbBits + BitsOfHalfLimb[n \div LimbBase]
BitLen(x) ==
    IF x[1] > 0 THEN 2 * LimbBits + Bits(x[1])
    ELSE IF x[2] > 0 THEN LimbBits + Bits(x[2])
    ELSE Bits(x[3])

\* x \div t for x >= 0 and a small t > 0, by long division from the top limb,
\* and whether the division leaves no remainder
Quotient(x, t) ==
    LET m == (x[1] % t) * LimbBase + x[2]
        l == (m % t) * LimbBase + x[3]
    IN  [q |-> <<x[1] \div t, m \div t, l \div t>>, exact |-> l % t = 0]

(* ---------------- binary64 ---------------- *)
\* x >= 0, followed by further non-zero digits when sticky, rounded to
\* MantissaBits significant bits, ties to even
RoundMagnitude(x, sticky) ==
    LET excess == BitLen(x) - MantissaBits
    IN  IF excess <= 0 THEN x
        ELSE
         LET ulp == 2 ^ excess
             rem == x[3] % ulp
             odd == (x[3] \div ulp) % 2 = 1
             up == 2 * rem > ulp \/ (2 * rem = ulp /\ (sticky \/ odd))
         IN  Norm(x[1], x[2], x[3] - rem + (IF up THEN ulp ELSE 0))

Round(x) ==
    IF x[1] < 0 THEN Negate(RoundMagnitude(Negate(x), FALSE))
    ELSE RoundMagnitude(x, FALSE)

\* the element of a singleton: an operation below takes its operands from
\* singletons, so that each operand is evaluated once
The(S) == CHOOSE r \in S : TRUE

\* x + y and x - y of two floats
FAdd(x, y) == The({ Round(s) : s \in { Plus(a, b) : a \in {x}, b \in {y} } })
FSub(x, y) == The({ Round(d) : d \in { Minus(a, b) : a \in {x}, b \in {y} } })

\* x * r for the float r = j / 2^RandomBits
FMulRandom(x, j) ==
    LET Scaled(m) ==
            The({ RoundMagnitude(d.q, ~d.exact) :
                  d \in {Quotient(Times(m, j), 2 ^ RandomBits)} })
    IN  The({ IF a[1] < 0 THEN Negate(Scaled(Negate(a))) ELSE Scaled(a) :
              a \in {x} })

\* the float nearest to k / t, as float("0.3") for k = 3 and t = 10
Float(k, t) ==
    The({ RoundMagnitude(d.q, ~d.exact) : d \in {Quotient(Whole(k), t)} })

(* ---------------- inputs ---------------- *)
SeqsUpTo(S, n) == UNION { [1..k -> S] : k \in 0..n }

\* k ticks as a float of seconds
Ticks(k) == Float(k, TicksPerSecond)

Durations == { Ticks(k) : k \in 1..MaxClipDuration }
VideoDurations == { Ticks(k) : k \in 1..MaxVideoDuration }

\* the values of random.random(), all in [0, 1), as numerators over
\* 2^RandomBits
Randoms == { j \in 0..MaxRandom : j < 2 ^ RandomBits }

\* the final_length field of the form: missing or empty, a text that float()
\* refuses, or the text of a float, finite or not
Missing == [kind |-> "missing", val |-> Zero]
Text == [kind |-> "text", val |-> Zero]
Num(x) == [kind |-> "num", val |-> x]
Inf == [kind |-> "inf", val |-> Zero]
NegInf == [kind |-> "-inf", val |-> Zero]
NaN == [kind |-> "nan", val |-> Zero]
Targets == { Num(Ticks(t)) : t \in 0..MaxTarget } \cup {Inf, NegInf, NaN}

\* x < f, x > f and f <= 0 for a finite float x and a float f: every
\* comparison with nan is false
Less(x, f) == (f.kind = "num" /\ Lt(x, f.val)) \/ f.kind = "inf"
Greater(x, f) == (f.kind = "num" /\ Lt(f.val, x)) \/ f.kind = "-inf"
LeZero(f) == (f.kind = "num" /\ Le(f.val, Zero)) \/ f.kind = "-inf"

\* float(final_length_str) returns a float
Parses(f) == f.kind \in {"num", "inf", "-inf", "nan"}

(* ---------------- helpers ---------------- *)
RECURSIVE Flatten(_)
Flatten(groups) ==
    IF groups = <<>> THEN <<>> ELSE Head(groups) \o Flatten(Tail(groups))

\* the groups of a plan: flat cut into consecutive groups after the positions in cuts
Split(flat, cuts) ==
    IF flat = <<>> THEN <<>>
    ELSE [g \in 1..(Cardinality(cuts) + 1) |->
            LET members == { k \in 1..Len(flat) :
                               1 + Cardinality({ c \in cuts : c < k }) = g }
                first == CHOOSE k \in members : \A m \in members : k <= m
            IN  [i \in 1..Cardinality(members) |-> flat[first + i - 1]]]

\* plans of at most n durations in all, held in one group or in one group
\* for each duration (SCENE_HOLDERS is a list of non-empty groups), and the
\* plan without any group
Plans(n) ==
    UNION { { Split(flat, cuts) : cuts \in {{}, 1..(Len(flat) - 1)} } :
            flat \in SeqsUpTo(Durations, n) }

\* a request: whether it carries a file, its final_length field, and the
\* length of the uploaded video
Request(file, final_length, duration) ==
    [file |-> file, final_length |-> final_length, duration |-> duration]

NoFile == Request(FALSE, Missing, Zero)

\* the requests and plans that exercise the sampler and the walk: every video
\* length and every plan, with a target as long as the longest clip and an
\* endless one
WalkRequests ==
    {NoFile} \cup
    { Request(TRUE, f, vd) :
        f \in {Missing, Text, Num(Zero), Num(Ticks(MaxClipDuration)), Inf},
        vd \in VideoDurations }
WalkPlans == Plans(MaxPlanLen)

\* the requests and plans that exercise the assembly: every target, on the
\* longest video and the shorter plans
AssemblyRequests ==
    {NoFile} \cup
    { Request(TRUE, f, Ticks(MaxVideoDuration)) : f \in {Missing, Text} \cup Targets }
AssemblyPlans == Plans(MaxPlanLen - 1)

\* concatenate_videoclips(clips).duration: the durations added up from 0, left
\* to right
RECURSIVE SumDurations(_)
SumDurations(clips) ==
    IF clips = <<>> THEN Zero
    ELSE FAdd(SumDurations(SubSeq(clips, 1, Len(clips) - 1)),
              clips[Len(clips)].duration)

\* concatenate_videoclips(loops).duration for n copies of a clip of length len
RECURSIVE SumCopies(_, _)
SumCopies(len, n) == IF n = 0 THEN Zero ELSE FAdd(SumCopies(len, n - 1), len)

\* random.uniform(a, b): a + (b - a) * random.random()
Uniform(a, b) == { FAdd(a, FMulRandom(FSub(b, a), j)) : j \in Randoms }

\* a sampler that does not subtract the clip duration
MaxStartTimeWhole(vd, duration) == vd

\* max_start_time = video_duration - duration
MaxStartTime(vd, duration) == FSub(vd, duration)

\* min_gap, a whole number of seconds
Gap == Whole(MinGap)

\* an overlap test against the unpadded ends
OverlapUnpadded(start_time, end_time, used) ==
    \E i \in 1..Len(used) :
        Lt(used[i][1], end_time) /\ Lt(start_time, FSub(used[i][2], Gap))

\* any(s < end_time and start_time < e for (s, e) in used_intervals)
Overlap(start_time, end_time, used) ==
    \E i \in 1..Len(used) : Lt(used[i][1], end_time) /\ Lt(start_time, used[i][2])

\* the entry appended to used_intervals
Claimed(start_time, end_time) == <<start_time, FAdd(end_time, Gap)>>

\* video.subclip(t_start, t_end) of moviepy: a negative t_start is replaced by
\* video.duration + t_start, and the subclip lasts t_end minus that start; the
\* record keeps the arguments as the sampler passed them
Subclip(vd, t_start, t_end) ==
    LET ts == IF Lt(t_start, Zero) THEN FAdd(vd, t_start) ELSE t_start
    IN  [t_start |-> t_start, t_end |-> t_end, duration |-> FSub(t_end, ts)]

CurDuration == scene_holders[gi][di]

(* ---------------- initial state ---------------- *)
Waiting ==
    /\ pc = "idle"
    /\ video_duration = Zero
    /\ video_open = FALSE
    /\ desired_final_length = Num(Zero)
    /\ gi = 1
    /\ di = 1
    /\ max_start_time = Zero
    /\ attempts = 0
    /\ used_intervals = <<>>
    /\ selected_clips = <<>>
    /\ outcomes = <<>>
    /\ highlight_len = Zero
    /\ loops = 0
    /\ total = Zero
    /\ clip_duration = Zero
    /\ has_audio = FALSE
    /\ output_written = FALSE
    /\ error = "none"

\* a request has arrived and SCENE_HOLDERS holds the plan
WalkInit == Waiting /\ request \in WalkRequests /\ scene_holders \in WalkPlans
AssemblyInit == Waiting /\ request \in AssemblyRequests /\ scene_holders \in AssemblyPlans

(* ---------------- /process ---------------- *)
\* the request carries no file: refused first, whatever the length field holds
RejectNoFile ==
    /\ pc = "idle"
    /\ ~request.file
    /\ pc' = "rejected"
    /\ error' = "No video file uploaded."
    /\ UNCHANGED <<request, video_duration, video_open, scene_holders,
                   desired_final_length, gi, di, max_start_time, attempts,
                   used_intervals, selected_clips, outcomes, highlight_len,
                   loops, total, clip_duration, has_audio, output_written>>

\* a file, but the length field is missing or empty
RejectNoLength ==
    /\ pc = "idle"
    /\ request.file
    /\ request.final_length.kind = "missing"
    /\ pc' = "rejected"
    /\ error' = "No final length specified."
    /\ UNCHANGED <<request, video_duration, video_open, scene_holders,
                   desired_final_length, gi, di, max_start_time, attempts,
                   used_intervals, selected_clips, outcomes, highlight_len,
                   loops, total, clip_duration, has_audio, output_written>>

\* a file and a length field that float() cannot parse: ValueError
RejectUnparsable ==
    /\ pc = "idle"
    /\ request.file
    /\ request.final_length.kind = "text"
    /\ pc' = "rejected"
    /\ error' = "could not convert string to float"
    /\ UNCHANGED <<request, video_duration, video_open, scene_holders,
                   desired_final_length, gi, di, max_start_time, attempts,
                   used_intervals, selected_clips, outcomes, highlight_len,
                   loops, total, clip_duration, has_audio, output_written>>

\* a file and a parsed length with final_length <= 0: refused before the
\* video is opened
RejectLength ==
    /\ pc = "idle"
    /\ request.file
    /\ Parses(request.final_length)
    /\ LeZero(request.final_length)
    /\ desired_final_length' = request.final_length
    /\ pc' = "rejected"
    /\ error' = "Final highlight length must be positive."
    /\ UNCHANGED <<request, video_duration, video_open, scene_holders, gi, di,
                   max_start_time, attempts, used_intervals, selected_clips,
                   outcomes, highlight_len, loops, total, clip_duration,
                   has_audio, output_written>>

\* a file and a length that is not <= 0, but video_file.save raises: caught
\* by the handler before generate_scenes_highlight is called
SaveFails ==
    /\ pc = "idle"
    /\ request.file
    /\ Parses(request.final_length)
    /\ ~LeZero(request.final_length)
    /\ desired_final_length' = request.final_length
    /\ pc' = "save_error"
    /\ error' = "video_file.save failed"
    /\ UNCHANGED <<request, video_duration, video_open, scene_holders, gi, di,
                   max_start_time, attempts, used_intervals, selected_clips,
                   outcomes, highlight_len, loops, total, clip_duration,
                   has_audio, output_written>>

\* the upload is saved but VideoFileClip(video_path) raises (a file that is
\* no video): no handle is held, and the handler catches the exception
OpenFails ==
    /\ pc = "idle"
    /\ request.file
    /\ Parses(request.final_length)
    /\ ~LeZero(request.final_length)
    /\ desired_final_length' = request.final_length
    /\ pc' = "open_error"
    /\ error' = "VideoFileClip failed"
    /\ UNCHANGED <<request, video_duration, video_open, scene_holders, gi, di,
                   max_start_time, attempts, used_intervals, selected_clips,
                   outcomes, highlight_len, loops, total, clip_duration,
                   has_audio, output_written>>

\* a file and a length that is not <= 0 (a positive number, inf or nan):
\* generate_scenes_highlight opens video = VideoFileClip(video_path), then
\* process_scene_holders starts with empty lists
OpenVideo ==
    /\ pc = "idle"
    /\ request.file
    /\ Parses(request.final_length)
    /\ ~LeZero(request.final_length)
    /\ desired_final_length' = request.final_length
    /\ video_duration' = request.duration
    /\ video_open' = TRUE
    /\ used_intervals' = <<>>
    /\ selected_clips' = <<>>
    /\ gi' = 1
    /\ di' = 1
    /\ pc' = "walk"
    /\ UNCHANGED <<request, scene_holders, max_start_time, attempts, outcomes,
                   highlight_len, loops, total, clip_duration, has_audio,
                   output_written, error>>

(* ---------------- process_scene_holders ---------------- *)
\* the inner for loop is exhausted: next durations_group
NextGroup ==
    /\ pc = "walk"
    /\ gi <= Len(scene_holders)
    /\ di > Len(scene_holders[gi])
    /\ gi' = gi + 1
    /\ di' = 1
    /\ UNCHANGED <<request, pc, video_duration, video_open, scene_holders,
                   desired_final_length, max_start_time, attempts,
                   used_intervals, selected_clips, outcomes, highlight_len,
                   loops, total, clip_duration, has_audio, output_written,
                   error>>

\* call get_random_non_overlapping_clip(video, duration, used_intervals)
BeginCall ==
    /\ pc = "walk"
    /\ gi <= Len(scene_holders)
    /\ di <= Len(scene_holders[gi])
    /\ max_start_time' = MaxStartTime(video_duration, CurDuration)
    /\ attempts' = 0
    /\ pc' = "draw"
    /\ UNCHANGED <<request, video_duration, video_open, scene_holders,
                   desired_final_length, gi, di, used_intervals,
                   selected_clips, outcomes, highlight_len, loops, total,
                   clip_duration, has_audio, output_written, error>>

(* ---------------- get_random_non_overlapping_clip ---------------- *)
\* for _ in range(100)
BudgetLeft(n) == n < MaxAttempts

\* one iteration of the for loop: a draw that overlaps a claimed interval is
\* dropped; a free one is claimed, the subclip is returned and the caller
\* appends it to selected_clips
Draw ==
    /\ pc = "draw"
    /\ BudgetLeft(attempts)
    /\ \E start_time \in Uniform(Zero, max_start_time) :
        LET end_time == FAdd(start_time, CurDuration)
        IN  IF Overlap(start_time, end_time, used_intervals)
            THEN /\ attempts' = attempts + 1
                 /\ UNCHANGED <<pc, di, used_intervals, selected_clips, outcomes>>
            ELSE /\ used_intervals' =
                        Append(used_intervals, Claimed(start_time, end_time))
                 /\ selected_clips' =
                        Append(selected_clips,
                               Subclip(video_duration, start_time, end_time))
                 /\ attempts' = 0
                 /\ outcomes' =
                        Append(outcomes, [duration |-> CurDuration, ok |-> TRUE])
                 /\ di' = di + 1
                 /\ pc' = "walk"
    /\ UNCHANGED <<request, video_duration, video_open, scene_holders,
                   desired_final_length, gi, max_start_time, highlight_len,
                   loops, total, clip_duration, has_audio, output_written,
                   error>>

\* a handler that gives up the whole walk on the first failure
ExhaustedReturn ==
    /\ pc = "draw"
    /\ ~BudgetLeft(attempts)
    /\ outcomes' = Append(outcomes, [duration |-> CurDuration, ok |-> FALSE])
    /\ gi' = Len(scene_holders) + 1
    /\ di' = 1
    /\ pc' = "walk"
    /\ attempts' = 0
    /\ UNCHANGED <<request, video_duration, video_open, scene_holders,
                   desired_final_length, max_start_time,
                   used_intervals, selected_clips, highlight_len, loops,
                   total, clip_duration, has_audio, output_written, error>>

\* the for loop ran out: ValueError, caught by process_scene_holders, which
\* prints a warning and continues with the next duration
Exhausted ==
    /\ pc = "draw"
    /\ ~BudgetLeft(attempts)
    /\ outcomes' = Append(outcomes, [duration |-> CurDuration, ok |-> FALSE])
    /\ di' = di + 1
    /\ pc' = "walk"
    /\ attempts' = 0
    /\ UNCHANGED <<request, video_duration, video_open, scene_holders,
                   desired_final_length, gi, max_start_time,
                   used_intervals, selected_clips, highlight_len, loops,
                   total, clip_duration, has_audio, output_written, error>>

(* ---------------- generate_scenes_highlight ---------------- *)
\* the outer for loop is exhausted: process_scene_holders returns selected_clips
WalkDone == pc = "walk" /\ gi > Len(scene_holders)

\* a test that also refuses a single subclip
NoSubclipsFewerThanTwo(clips) == Len(clips) < 2

\* if not subclips
NoSubclips(clips) == clips = <<>>

\* while total < desired_final_length
LoopCond(t, desired) == Less(t, desired)

\* an assembly that never truncates
TruncatedNever(duration, desired) == duration

\* if highlight_clip.duration > desired_final_length: subclip(0, desired_final_length)
Truncated(duration, desired) ==
    IF Greater(duration, desired) THEN FSub(desired.val, Zero) ELSE duration

\* raise RuntimeError("No subclips were produced from SCENE_HOLDERS.")
RaiseNoSubclips ==
    /\ WalkDone
    /\ NoSubclips(selected_clips)
    /\ pc' = "failed"
    /\ error' = "No subclips were produced from SCENE_HOLDERS."
    /\ UNCHANGED <<request, video_duration, video_open, scene_holders,
                   desired_final_length, gi, di, max_start_time, attempts,
                   used_intervals, selected_clips, outcomes, highlight_len,
                   loops, total, clip_duration, has_audio, output_written>>

\* highlight_clip = concatenate_videoclips(subclips); then either enter the
\* looping branch (loops = [highlight_clip], total = highlight_len) or go on
\* to the truncation test
Concatenate ==
    /\ WalkDone
    /\ ~NoSubclips(selected_clips)
    /\ LET len == SumDurations(selected_clips)
       IN  /\ highlight_len' = len
           /\ clip_duration' = len
           /\ IF Less(len, desired_final_length)
              THEN /\ loops' = 1
                   /\ total' = len
                   /\ pc' = "loop"
              ELSE /\ UNCHANGED <<loops, total>>
                   /\ pc' = "truncate"
    /\ has_audio' = TRUE
    /\ UNCHANGED <<request, video_duration, video_open, scene_holders,
                   desired_final_length, gi, di, max_start_time, attempts,
                   used_intervals, selected_clips, outcomes, output_written,
                   error>>

\* the while test holds: enter the body
LoopTest ==
    /\ pc = "loop"
    /\ LoopCond(total, desired_final_length)
    /\ pc' = "loop_body"
    /\ UNCHANGED <<request, video_duration, video_open, scene_holders,
                   desired_final_length, gi, di, max_start_time, attempts,
                   used_intervals, selected_clips, outcomes, highlight_len,
                   loops, total, clip_duration, has_audio, output_written,
                   error>>

\* loops.append(highlight_clip); total += highlight_len, while the list can
\* still grow
LoopAppend ==
    /\ pc = "loop_body"
    /\ loops < MaxCopies
    /\ loops' = loops + 1
    /\ total' = FAdd(total, highlight_len)
    /\ pc' = "loop"
    /\ UNCHANGED <<request, video_duration, video_open, scene_holders,
                   desired_final_length, gi, di, max_start_time, attempts,
                   used_intervals, selected_clips, outcomes, highlight_len,
                   clip_duration, has_audio, output_written, error>>

\* loops.append(highlight_clip) finds no memory left for the list:
\* MemoryError, caught by the handler, whose message is empty
LoopMemoryError ==
    /\ pc = "loop_body"
    /\ loops >= MaxCopies
    /\ pc' = "out_of_memory"
    /\ error' = "MemoryError"
    /\ UNCHANGED <<request, video_duration, video_open, scene_holders,
                   desired_final_length, gi, di, max_start_time, attempts,
                   used_intervals, selected_clips, outcomes, highlight_len,
                   loops, total, clip_duration, has_audio, output_written>>

\* the while test fails: highlight_clip = concatenate_videoclips(loops)
LoopDone ==
    /\ pc = "loop"
    /\ ~LoopCond(total, desired_final_length)
    /\ clip_duration' = SumCopies(highlight_len, loops)
    /\ pc' = "truncate"
    /\ UNCHANGED <<request, video_duration, video_open, scene_holders,
                   desired_final_length, gi, di, max_start_time, attempts,
                   used_intervals, selected_clips, outcomes, highlight_len,
                   loops, total, has_audio, output_written, error>>

\* truncate if longer, then without_audio(): the clip handed to write_videofile
TruncateAndMute ==
    /\ pc = "truncate"
    /\ clip_duration' = Truncated(clip_duration, desired_final_length)
    /\ has_audio' = FALSE
    /\ pc' = "encode"
    /\ UNCHANGED <<request, video_duration, video_open, scene_holders,
                   desired_final_length, gi, di, max_start_time, attempts,
                   used_intervals, selected_clips, outcomes, highlight_len,
                   loops, total, output_written, error>>

\* write_videofile succeeds; return output_filename
WriteOk ==
    /\ pc = "encode"
    /\ output_written' = TRUE
    /\ pc' = "done"
    /\ UNCHANGED <<request, video_duration, video_open, scene_holders,
                   desired_final_length, gi, di, max_start_time, attempts,
                   used_intervals, selected_clips, outcomes, highlight_len,
                   loops, total, clip_duration, has_audio, error>>

\* write_videofile raises (unwritable path, codec failure)
WriteFails ==
    /\ pc = "encode"
    /\ pc' = "io_error"
    /\ error' = "write_videofile failed"
    /\ UNCHANGED <<request, video_duration, video_open, scene_holders,
                   desired_final_length, gi, di, max_start_time, attempts,
                   used_intervals, selected_clips, outcomes, highlight_len,
                   loops, total, clip_duration, has_audio, output_written>>

Next ==
    \/ RejectNoFile
    \/ RejectNoLength
    \/ RejectUnparsable
    \/ RejectLength
    \/ SaveFails
    \/ OpenFails
    \/ OpenVideo
    \/ NextGroup
    \/ BeginCall
    \/ Draw
    \/ Exhausted
    \/ RaiseNoSubclips
    \/ Concatenate
    \/ LoopTest
    \/ LoopAppend
    \/ LoopMemoryError
    \/ LoopDone
    \/ TruncateAndMute
    \/ WriteOk
    \/ WriteFails

WalkSpec == WalkInit /\ [][Next]_vars

AssemblySpec == AssemblyInit /\ [][Next]_vars

\* the request runs synchronously to its end: every enabled step is taken
FairSpec == AssemblySpec /\ WF_vars(Next)

\* the request has ended: the handler returns a page
Terminal == {"rejected", "save_error", "open_error", "failed", "out_of_memory",
             "done", "io_error"}

(* ---------------- properties ---------------- *)
\* positions after process_scene_holders has returned
PostWalk == {"failed", "loop", "loop_body", "out_of_memory", "truncate",
             "encode", "done", "io_error"}

\* positions at which generate_scenes_highlight has returned or raised
Exits == {"open_error", "failed", "out_of_memory", "done", "io_error"}

IsOk(o) == o.ok

SomeSkipped == \E k \in 1..Len(outcomes) : ~outcomes[k].ok

SomeOk == \E k \in 1..Len(outcomes) : outcomes[k].ok

\* C1: an interval returned by the sampler overlaps no entry that was in the
\* claimed collection when it was drawn: for the j-th subclip (s, e) and every
\* earlier entry (es, ee) of used_intervals, not (s < ee and es < e).
C1_ReturnedAvoidsClaimed ==
    \A j \in 1..Len(selected_clips) : \A i \in 1..(j - 1) :
        ~(Lt(selected_clips[j].t_start, used_intervals[i][2])
          /\ Lt(used_intervals[i][1], selected_clips[j].t_end))

\* a sampler call on a non-empty claimed collection returned an interval that
\* ends exactly where an earlier entry starts
C1_Witness ==
    /\ pc = "walk"
    /\ Len(selected_clips) >= 2
    /\ \E j \in 2..Len(selected_clips) : \E i \in 1..(j - 1) :
          selected_clips[j].t_end = used_intervals[i][1]

\* C2: with an empty claimed collection (the first call of a run) and
\* clip_duration <= total_duration the sampler succeeds and returns (s, e)
\* with 0 <= s and e = s + clip_duration <= total_duration.
C2_FirstClipInsideSource ==
    (outcomes # <<>> /\ Le(outcomes[1].duration, video_duration)) =>
        /\ outcomes[1].ok
        /\ selected_clips # <<>>
        /\ Le(Zero, selected_clips[1].t_start)
        /\ selected_clips[1].t_end =
              FAdd(selected_clips[1].t_start, outcomes[1].duration)
        /\ Le(selected_clips[1].t_end, video_duration)

\* the first call, on a duration that fits, has returned a clip that starts
\* after 0 and ends before the end of the source
C2_Witness ==
    /\ outcomes # <<>>
    /\ Le(outcomes[1].duration, video_duration)
    /\ selected_clips # <<>>
    /\ Lt(Zero, selected_clips[1].t_start)
    /\ Lt(selected_clips[1].t_end, video_duration)

\* C3: if clip_duration > total_duration the sampler never returns an interval
\* and never appends to the claimed collection, so a run whose plan holds only
\* such durations ends with the no-subclips error.
C3_TooLongAlwaysFails ==
    /\ \A k \in 1..Len(outcomes) :
          Lt(video_duration, outcomes[k].duration) => ~outcomes[k].ok
    /\ (/\ pc \in PostWalk
        /\ \A k \in 1..Len(outcomes) : Lt(video_duration, outcomes[k].duration))
       => (pc = "failed" /\ used_intervals = <<>>)

\* a target that is > 0
Positive(f) == (f.kind = "num" /\ Lt(Zero, f.val)) \/ f.kind = "inf"

\* C4: for a positive target, once at least one subclip was produced, the
\* timeline handed to write_videofile lasts exactly desired_final_length.
C4_EncodedLengthIsTarget ==
    (pc \in {"encode", "done", "io_error"} /\ Positive(desired_final_length)) =>
        /\ desired_final_length.kind = "num"
        /\ clip_duration = desired_final_length.val

\* a looped timeline that overshot the target was cut back and handed over
C4_Witness ==
    /\ pc = "encode"
    /\ loops >= 2
    /\ desired_final_length.kind = "num"
    /\ Lt(desired_final_length.val, total)
    /\ clip_duration = desired_final_length.val

\* C5: if L < target, the looped timeline is k whole copies of the original
\* highlight, k * L being the smallest multiple of L that is >= target: k * L
\* reaches the target and (k - 1) * L does not, the products taken exactly.
C5_LoopingLaw ==
    (pc \in {"truncate", "encode", "done", "io_error"}
     /\ Less(highlight_len, desired_final_length)) =>
        /\ ~Less(Times(highlight_len, loops), desired_final_length)
        /\ Less(Times(highlight_len, loops - 1), desired_final_length)

\* C6: the run ends with the no-subclips error iff no duration of the whole
\* plan was sampled successfully; the error is raised before concatenation,
\* looping, truncation and encoding, so nothing is written; with at least one
\* success, skipped durations do not abort the run.
C6_FatalIffNothingSampled ==
    /\ pc \in PostWalk =>
          /\ Len(outcomes) = Len(Flatten(scene_holders))
          /\ (pc = "failed" <=> ~SomeOk)
    /\ pc = "failed" =>
          /\ error = "No subclips were produced from SCENE_HOLDERS."
          /\ ~output_written
          /\ highlight_len = Zero /\ loops = 0 /\ clip_duration = Zero
    /\ (SomeOk /\ pc \in PostWalk) =>
          error # "No subclips were produced from SCENE_HOLDERS."

\* a run with a skipped duration and a successful one wrote its output
C6_Witness ==
    /\ pc = "done"
    /\ output_written
    /\ SomeSkipped
    /\ SomeOk

\* C7: no two entries of the claimed collection overlap, each taken with its
\* gap-padded end, whichever was claimed first.
C7_PaddedEntriesDisjoint ==
    \A i, j \in 1..Len(used_intervals) :
        i # j => ~(Lt(used_intervals[i][1], used_intervals[j][2])
                   /\ Lt(used_intervals[j][1], used_intervals[i][2]))

\* C8: on every exit of generate_scenes_highlight (written, no subclips,
\* encoding failure) the source media handle has been released.
C8_HandleReleasedOnExit ==
    pc \in Exits => ~video_open

\* C9: every duration of the plan is attempted exactly once in plan order
\* against one claimed collection; a failure skips only that duration and
\* appends nothing; the subclips are the flattened plan without the failed
\* durations, in order, as many as there are claimed entries.
C9_SkipAndContinue ==
    LET flat == Flatten(scene_holders)
        done == SelectSeq(outcomes, IsOk)
    IN  /\ Len(outcomes) <= Len(flat)
        /\ \A k \in 1..Len(outcomes) : outcomes[k].duration = flat[k]
        /\ pc \in PostWalk => Len(outcomes) = Len(flat)
        /\ Len(selected_clips) = Len(done)
        /\ Len(used_intervals) = Len(selected_clips)
        /\ \A j \in 1..Len(selected_clips) :
              /\ selected_clips[j].t_end =
                    FAdd(selected_clips[j].t_start, done[j].duration)
              /\ used_intervals[j] = Claimed(selected_clips[j].t_start,
                                             selected_clips[j].t_end)

\* the walk is over and a duration sampled after a skipped one succeeded
C9_Witness ==
    /\ pc \in PostWalk
    /\ \E k, m \in 1..Len(outcomes) : k < m /\ ~outcomes[k].ok /\ outcomes[m].ok

\* a step of the sampler that raises: the call ends without a new subclip
RaisesStep == pc = "draw" /\ pc' = "walk" /\ selected_clips' = selected_clips

\* a step of the sampler that draws a free interval
FreeDrawStep == pc = "draw" /\ selected_clips' # selected_clips

\* C10: a sampler call makes at most 100 draws, returns on the first free
\* draw and fails only after exactly 100 rejected draws; every run, for any
\* plan and any positive target, terminates, its loop ending by its test
\* after finitely many copies and not by running out of memory.
C10_BoundedRetryAndTermination ==
    /\ [](attempts <= MaxAttempts /\ (attempts > 0 => pc = "draw"))
    /\ [][RaisesStep => attempts = MaxAttempts]_vars
    /\ [][FreeDrawStep => (attempts < MaxAttempts /\ pc' = "walk")]_vars
    /\ <>(pc \in Terminal)
    /\ [](pc # "out_of_memory")
====
